---- MODULE Spec2Model ----
(***************************************************************************)
(* Model of the /compare-faces request handler of the verification server  *)
(* (src/combined-server.js, lines 261-350; the same handler is repeated in *)
(* src/config/db.js, lines 278-367) together with its helper               *)
(* fetchAccountData (src/combined-server.js, lines 81-106).                *)
(*                                                                         *)
(* Real numbers (distances, similarities) are fixed-point integers in      *)
(* units of 1/One, one decimal digit finer than the toFixed(4) grid, so    *)
(* that rounding is observable.                                            *)
(***************************************************************************)
EXTENDS Integers, Sequences, FiniteSets, TLC

\* ------------------------------------------------------------------ bounds
\* Largest number of entries of the approved array the store returns.
MaxCands == 2

\* Largest number of pixels of a canonical signature image (the code
\* resizes to 300 x 150; the model keeps images of a few pixels).
MaxPixels == 2

\* Largest number of requests dispatched while the process is watched
\* during start-up.
MaxServed == 2

\* ------------------------------------------------------- program constants
\* const maxDifference = pixelCount * 255
MaxPixelValue == 255

\* The three nets loaded from disk at start-up.
NetCount == 3

\* toFixed(4): number of decimals kept in the reported similarities.
FixedDigits == 4

\* The fixed-point value of 1.0: one digit finer than the toFixed grid.
One == 10 * (10 ^ FixedDigits)

\* Width of one toFixed(4) step, in fixed-point units.
Step == One \div (10 ^ FixedDigits)

\* The literal 0.5 of `distance < 0.5`.
Threshold == One \div 2

\* ------------------------------------------------------------------ inputs
\* Euclidean distances the embedding provider can report between the live
\* descriptor and a stored descriptor (0, 0.3, 0.49996, 0.5, 0.99996, 1, 1.2).
Distances == {0, 30000, 49996, 50000, 99996, 100000, 120000}

\* What an image is, as far as the handler can observe it:
\*   nocomma : a photo string without a ',' (split(',')[1] is undefined)
\*   corrupt : bytes sharp / canvas cannot decode
\*   noface  : decodable, detectSingleFace resolves to undefined
\*   face    : decodable, a descriptor at distance `dist` from the live one
NoFacePhoto == [kind |-> "noface", dist |-> 0]
CorruptPhoto == [kind |-> "corrupt", dist |-> 0]
NoCommaPhoto == [kind |-> "nocomma", dist |-> 0]
MissingPhoto == [kind |-> "missing", dist |-> 0]
FacePhoto(d) == [kind |-> "face", dist |-> d]

StoredPhotos ==
  {NoFacePhoto, CorruptPhoto, NoCommaPhoto, MissingPhoto}
    \cup {FacePhoto(d) : d \in Distances}

\* The live upload: multer hands over a buffer, or none; "nofiles" is the
\* request that is not multipart, which multer passes on with req.files
\* undefined.
LivePhotos == {"nofiles", "absent", "corrupt", "noface", "face"}

\* An entry of data.approved: item.photo and whether item.signature is set.
Items == [photo : StoredPhotos, signature : BOOLEAN]

ApprovedLists == UNION {[1..n -> Items] : n \in 0..MaxCands}

\* Messages of the errors axios.request rejects with.
NetMessages == {"connect ECONNREFUSED", "Request failed with status code 404"}

\* Replies of the account-record store to axios.request; "pending" is the
\* store that never replies (the request config sets no timeout).
StoreReplies ==
  {[status |-> "error", msg |-> m, approved |-> <<>>] : m \in NetMessages}
    \cup {[status |-> "pending", msg |-> "", approved |-> <<>>]}
    \cup {[status |-> "noapproved", msg |-> "", approved |-> <<>>]}
    \cup {[status |-> "ok", msg |-> "", approved |-> a] : a \in ApprovedLists}

\* Gray levels the canonical signature images are made of.
PixelValues == {0, 100, MaxPixelValue}

\* Width and height of the images sharp hands back.
SigDims ==
  {d \in (1..MaxPixels) \X (1..MaxPixels) : d[1] * d[2] <= MaxPixels}

\* A signature upload: none, bytes sharp cannot decode, or an upload given
\* by what sharp(..).resize(300, 150).grayscale().raw() makes of it.
AbsentFile == [kind |-> "absent", width |-> 0, height |-> 0, data |-> <<>>]
CorruptFile == [kind |-> "corrupt", width |-> 0, height |-> 0, data |-> <<>>]
CanonicalImages ==
  UNION {[kind : {"image"}, width : {d[1]}, height : {d[2]},
          data : [1..(d[1] * d[2]) -> PixelValues]] : d \in SigDims}
SigUploads == {AbsentFile, CorruptFile} \cup CanonicalImages

VARIABLES
  pc,              \* position of the handler
  accountNumber,   \* req.body.accountNumber is set
  livePhoto,       \* the live upload
  store,           \* what the store replies for this account
  accountData,     \* const accountData
  idx,             \* position of the for-of loop in accountData
  faceResults,     \* const faceResults
  bestSimilarity,  \* let bestSimilarity
  isMatch,         \* let isMatch
  calls,           \* calls made to the collaborators during this request
  response,        \* what res.status(..).json(..) sent
  sigPc,           \* position of the /compare-signatures handler
  signature1,      \* req.files.signature1, then img1
  signature2,      \* req.files.signature2, then img2
  sigI,            \* let i of the pixel loop
  difference,      \* let difference
  sigResponse,     \* what the /compare-signatures handler sent
  server,          \* the process: starting, listening or exited
  geminiKey,       \* process.env.GEMINI_API_KEY is set
  netsLoaded,      \* how many of the nets have been loaded
  backend,         \* the tf.setBackend('cpu') promise: pending or ready
  served           \* requests dispatched to a handler so far, in order

faceVars == <<pc, accountNumber, livePhoto, store, accountData, idx,
              faceResults, bestSimilarity, isMatch, calls, response>>

sigVars == <<sigPc, signature1, signature2, sigI, difference, sigResponse>>

procVars == <<server, geminiKey, netsLoaded, backend, served>>

vars == <<faceVars, sigVars, procVars>>

NoResponse == [status |-> 0, body |-> [none |-> TRUE]]

\* ----------------------------------------------------------- pure helpers
Abs(x) == IF x < 0 THEN 0 - x ELSE x

\* Number.prototype.toFixed(4): the decimal with 4 digits nearest to x, the
\* larger one on a tie, computed on |x| with the sign put back; the result
\* is the numerator over 10^4.
ToFixed4(x) ==
  LET n == (Abs(x) + (Step \div 2)) \div Step
  IN IF x < 0 THEN 0 - n ELSE n

\* parseFloat of a toFixed(4) string, back in fixed-point units.
ParseFloat(n) == n * Step

\* const similarity = 1 - distance
Similarity(distance) == One - distance

\* const match = distance < 0.5
MatchInclusive(distance) == distance <= Threshold
Match(distance) == distance < Threshold

\* faceResults.push({ faceUrl, isMatch: false, similarity: 0 })
NoFaceEntryMatching(faceUrl) ==
  [faceUrl |-> faceUrl, isMatch |-> TRUE, similarity |-> 0]
NoFaceEntry(faceUrl) ==
  [faceUrl |-> faceUrl, isMatch |-> FALSE, similarity |-> 0]

\* faceResults.push({ faceUrl, isMatch: match,
\*                    similarity: parseFloat(similarity.toFixed(4)) })
ComparedEntry(faceUrl, distance) ==
  [faceUrl |-> faceUrl,
   isMatch |-> Match(distance),
   similarity |-> ParseFloat(ToFixed4(Similarity(distance)))]

\* if (similarity > bestSimilarity) bestSimilarity = similarity
NextBestLast(best, similarity) == similarity
NextBestLowest(best, similarity) == IF similarity < best THEN similarity ELSE best
NextBest(best, similarity) == IF similarity > best THEN similarity ELSE best

\* if (match) isMatch = true
NextIsMatchOverwrite(cur, match) == match
NextIsMatch(cur, match) == IF match THEN TRUE ELSE cur

\* req.files.livePhoto, evaluated before the try block: a TypeError when
\* req.files is undefined.
NoFiles == livePhoto = "nofiles"

\* if (!accountNumber || !livePhotoBuffer)
MissingInput == ~accountNumber \/ livePhoto = "absent"

\* if (!liveDetection) return res.status(400)...
NoLiveGuardNever(live) == FALSE
NoLiveGuard(live) == live = "noface"

\* the checks of fetchAccountData on response.data
ApprovedInvalid(reply) ==
  reply.status = "noapproved" \/ Len(reply.approved) = 0
ItemInvalidPhotoOnly(reply) ==
  \E i \in 1..Len(reply.approved) : reply.approved[i].photo.kind = "missing"
ItemInvalid(reply) ==
  \E i \in 1..Len(reply.approved) :
     reply.approved[i].photo.kind = "missing" \/ ~reply.approved[i].signature

MsgApproved ==
  "Invalid response format from external API: approved array is missing or empty"
MsgItem ==
  "Invalid response format from external API: photo or signature missing in approved item"
MsgBuffer == "The first argument must be of type string or an instance of Buffer"
MsgSharp == "Input buffer contains unsupported image format"
MsgDescriptor == "Cannot read properties of undefined (reading 'descriptor')"

\* ----------------------------------------------------------- the responses
BadRequest ==
  [status |-> 400, body |-> [error |-> "accountNumber and livePhoto are required"]]

NoLiveFace ==
  [status |-> 400, body |-> [error |-> "No face detected in the live photo"]]

\* The answer of the framework's final handler to an error no middleware
\* took.
FrameworkError ==
  [status |-> 500, body |-> [error |-> "Internal Server Error"]]

\* catch (error) { res.status(500).json({ error, details: error.message }) }
CatchResponsePartial(msg) ==
  [status |-> 500,
   body |-> [error |-> "Failed to compare faces", details |-> msg,
             faces |-> faceResults]]
CatchResponse(msg) ==
  [status |-> 500,
   body |-> [error |-> "Failed to compare faces", details |-> msg]]

\* res.json({ isMatch, bestSimilarity: parseFloat(...toFixed(4)), faces })
Outcome ==
  [status |-> 200,
   body |-> [isMatch |-> isMatch,
             bestSimilarity |-> ParseFloat(ToFixed4(bestSimilarity)),
             faces |-> faceResults]]

\* ------------------------------------------------------------------ actions
FaceInit ==
  /\ pc = "idle"
  /\ accountNumber = FALSE
  /\ livePhoto = "absent"
  /\ store = [status |-> "noapproved", msg |-> "", approved |-> <<>>]
  /\ accountData = <<>>
  /\ idx = 0
  /\ faceResults = <<>>
  /\ bestSimilarity = 0
  /\ isMatch = FALSE
  /\ calls = {}
  /\ response = NoResponse

SigInit ==
  /\ sigPc = "idle"
  /\ signature1 = AbsentFile
  /\ signature2 = AbsentFile
  /\ sigI = 0
  /\ difference = 0
  /\ sigResponse = NoResponse

\* The process in service: listening, the nets loaded.
InService ==
  /\ server = "listening"
  /\ geminiKey = TRUE
  /\ netsLoaded = NetCount
  /\ backend = "ready"
  /\ served = <<>>

Init == FaceInit /\ SigInit /\ InService

\* A POST /compare-faces arrives.
Receive ==
  /\ UNCHANGED <<sigVars, procVars>>
  /\ pc = "idle"
  /\ server = "listening"
  /\ \E a \in BOOLEAN, l \in LivePhotos, s \in StoreReplies :
       /\ accountNumber' = a
       /\ livePhoto' = l
       /\ store' = s
  /\ pc' = "validate"
  /\ accountData' = <<>>
  /\ idx' = 0
  /\ faceResults' = <<>>
  /\ bestSimilarity' = 0
  /\ isMatch' = FALSE
  /\ calls' = {}
  /\ response' = NoResponse

\* res.status(s).json(b), after which the handler returns.
Send(r) ==
  /\ response' = r
  /\ pc' = "done"

\* The two declarations and the guard that precede the try block. An
\* exception here rejects the promise the async handler returned.
Validate ==
  /\ UNCHANGED <<sigVars, procVars>>
  /\ pc = "validate"
  /\ IF NoFiles
       THEN pc' = "rejected" /\ UNCHANGED response
       ELSE IF MissingInput
         THEN Send(BadRequest)
         ELSE pc' = "fetch" /\ UNCHANGED response
  /\ UNCHANGED <<accountNumber, livePhoto, store, accountData, idx,
                 faceResults, bestSimilarity, isMatch, calls>>

\* const accountData = await fetchAccountData(accountNumber), then the
\* three declarations that follow it.
FetchAccountData ==
  /\ UNCHANGED <<sigVars, procVars>>
  /\ pc = "fetch"
  /\ store.status # "pending"
  /\ calls' = calls \cup {<<"fetch", 0>>}
  /\ IF store.status = "error" THEN
       Send(CatchResponse(store.msg)) /\ UNCHANGED accountData
     ELSE IF ApprovedInvalid(store) THEN
       Send(CatchResponse(MsgApproved)) /\ UNCHANGED accountData
     ELSE IF ItemInvalid(store) THEN
       Send(CatchResponse(MsgItem)) /\ UNCHANGED accountData
     ELSE
       /\ accountData' = store.approved
       /\ pc' = "normaliseLive"
       /\ UNCHANGED response
  /\ faceResults' = <<>>
  /\ bestSimilarity' = 0
  /\ isMatch' = FALSE
  /\ UNCHANGED <<accountNumber, livePhoto, store, idx>>

\* sharp(livePhotoBuffer)...toBuffer() and canvas.loadImage
NormaliseLive ==
  /\ UNCHANGED <<sigVars, procVars>>
  /\ pc = "normaliseLive"
  /\ calls' = calls \cup {<<"sharp", 0>>}
  /\ IF livePhoto = "corrupt"
       THEN Send(CatchResponse(MsgSharp))
       ELSE pc' = "detectLive" /\ UNCHANGED response
  /\ UNCHANGED <<accountNumber, livePhoto, store, accountData, idx,
                 faceResults, bestSimilarity, isMatch>>

\* faceapi.detectSingleFace(liveImg, ...) and the !liveDetection guard
DetectLive ==
  /\ UNCHANGED <<sigVars, procVars>>
  /\ pc = "detectLive"
  /\ calls' = calls \cup {<<"detect", 0>>}
  /\ IF NoLiveGuard(livePhoto)
       THEN Send(NoLiveFace) /\ UNCHANGED idx
       ELSE pc' = "loop" /\ idx' = 1 /\ UNCHANGED response
  /\ UNCHANGED <<accountNumber, livePhoto, store, accountData,
                 faceResults, bestSimilarity, isMatch>>

\* for (const item of accountData): Buffer.from(faceUrl.split(',')[1]),
\* sharp(storedPhotoBuffer)...toBuffer() and canvas.loadImage
NormaliseStored ==
  /\ UNCHANGED <<sigVars, procVars>>
  /\ pc = "loop"
  /\ idx <= Len(accountData)
  /\ LET faceUrl == accountData[idx].photo IN
       IF faceUrl.kind = "nocomma" THEN
         Send(CatchResponse(MsgBuffer)) /\ UNCHANGED calls
       ELSE
         /\ calls' = calls \cup {<<"sharp", idx>>}
         /\ IF faceUrl.kind = "corrupt"
              THEN Send(CatchResponse(MsgSharp))
              ELSE pc' = "detectStored" /\ UNCHANGED response
  /\ UNCHANGED <<accountNumber, livePhoto, store, accountData, idx,
                 faceResults, bestSimilarity, isMatch>>

\* faceapi.detectSingleFace(storedImg, ...) and the rest of the loop body
DetectStored ==
  /\ UNCHANGED <<sigVars, procVars>>
  /\ pc = "detectStored"
  /\ LET faceUrl == accountData[idx].photo IN
       IF faceUrl.kind = "noface" THEN
         \* if (!storedDetection) { push; continue; }
         /\ calls' = calls \cup {<<"detect", idx>>}
         /\ faceResults' = Append(faceResults, NoFaceEntry(faceUrl))
         /\ idx' = idx + 1
         /\ pc' = "loop"
         /\ UNCHANGED <<bestSimilarity, isMatch, response>>
       ELSE IF livePhoto # "face" THEN
         \* liveDetection.descriptor on an undefined liveDetection
         /\ calls' = calls \cup {<<"detect", idx>>}
         /\ Send(CatchResponse(MsgDescriptor))
         /\ UNCHANGED <<faceResults, idx, bestSimilarity, isMatch>>
       ELSE
         LET distance == faceUrl.dist IN
           /\ calls' = calls \cup {<<"detect", idx>>, <<"distance", idx>>}
           /\ faceResults' = Append(faceResults, ComparedEntry(faceUrl, distance))
           /\ bestSimilarity' = NextBest(bestSimilarity, Similarity(distance))
           /\ isMatch' = NextIsMatch(isMatch, Match(distance))
           /\ idx' = idx + 1
           /\ pc' = "loop"
           /\ UNCHANGED response
  /\ UNCHANGED <<accountNumber, livePhoto, store, accountData>>

\* the loop is over: res.json({ isMatch, bestSimilarity, faces })
Respond ==
  /\ UNCHANGED <<sigVars, procVars>>
  /\ pc = "loop"
  /\ idx > Len(accountData)
  /\ Send(Outcome)
  /\ UNCHANGED <<accountNumber, livePhoto, store, accountData, idx,
                 faceResults, bestSimilarity, isMatch, calls>>

\* The router of Express 4 ignores what the handler returns: the rejection
\* goes to process.on('unhandledRejection'), which logs it, and nothing is
\* ever written to res.
DropRejection ==
  /\ UNCHANGED <<sigVars, procVars>>
  /\ pc = "rejected"
  /\ pc' = "abandoned"
  /\ UNCHANGED <<accountNumber, livePhoto, store, accountData, idx,
                 faceResults, bestSimilarity, isMatch, calls, response>>

\* The router of Express 5 passes the rejection to next(err); the error
\* middleware is registered before the route and is not reached, so the
\* final handler answers.
ForwardRejection ==
  /\ UNCHANGED <<sigVars, procVars>>
  /\ pc = "rejected"
  /\ response' = FrameworkError
  /\ pc' = "failed"
  /\ UNCHANGED <<accountNumber, livePhoto, store, accountData, idx,
                 faceResults, bestSimilarity, isMatch, calls>>

\* The handler's execution is over, by a return, by the end of its body or
\* by an exception that left it.
HandlerEnded == pc \in {"done", "abandoned", "failed"}

\* The handler has returned: the request's locals are gone and the server
\* waits for the next request.
Finish ==
  /\ UNCHANGED <<sigVars, procVars>>
  /\ HandlerEnded
  /\ pc' = "idle"
  /\ accountNumber' = FALSE
  /\ livePhoto' = "absent"
  /\ store' = [status |-> "noapproved", msg |-> "", approved |-> <<>>]
  /\ accountData' = <<>>
  /\ idx' = 0
  /\ faceResults' = <<>>
  /\ bestSimilarity' = 0
  /\ isMatch' = FALSE
  /\ calls' = {}
  /\ response' = NoResponse

Next ==
  \/ Receive
  \/ Finish
  \/ Validate
  \/ FetchAccountData
  \/ NormaliseLive
  \/ DetectLive
  \/ NormaliseStored
  \/ DetectStored
  \/ Respond
  \/ DropRejection
  \/ ForwardRejection

Spec == Init /\ [][Next]_vars

\* A step of a request in flight: the event loop runs every continuation
\* that is ready, so these steps are taken whenever they stay possible.
HandlerStep ==
  \/ Validate
  \/ FetchAccountData
  \/ NormaliseLive
  \/ DetectLive
  \/ NormaliseStored
  \/ DetectStored
  \/ Respond
  \/ DropRejection
  \/ ForwardRejection

FairSpec == Init /\ [][Next]_vars /\ WF_vars(HandlerStep)

\* The loop of the handler as a fold over the candidates (all of them
\* decodable): what faceResults, bestSimilarity and isMatch are after it.
RECURSIVE Aggregate(_)
Aggregate(cands) ==
  IF cands = <<>>
    THEN [faces |-> <<>>, bestSimilarity |-> 0, isMatch |-> FALSE]
    ELSE
      LET prev == Aggregate(SubSeq(cands, 1, Len(cands) - 1))
          faceUrl == cands[Len(cands)].photo
          distance == faceUrl.dist
      IN IF faceUrl.kind = "noface"
           THEN [prev EXCEPT !.faces = Append(@, NoFaceEntry(faceUrl))]
           ELSE [faces |-> Append(prev.faces, ComparedEntry(faceUrl, distance)),
                 bestSimilarity |->
                   NextBest(prev.bestSimilarity, Similarity(distance)),
                 isMatch |-> NextIsMatch(prev.isMatch, Match(distance))]

\* ------------------------------------------ POST /compare-signatures
\* (src/combined-server.js, lines 119-151; src/server.js, lines 69-107)

\* Math.abs(img1.data[i] - img2.data[i])
PixelDiffSigned(p1, p2) == p1 - p2
PixelDiffOneSided(p1, p2) == IF p1 > p2 THEN p1 - p2 ELSE 0
PixelDiff(p1, p2) == Abs(p1 - p2)

\* img1.info.width !== img2.info.width || img1.info.height !== img2.info.height
DimsDifferWidthOnly(img1, img2) == img1.width # img2.width
DimsDiffer(img1, img2) ==
  img1.width # img2.width \/ img1.height # img2.height

\* const pixelCount = img1.info.width * img1.info.height
PixelCount(img1) == img1.width * img1.height

\* const maxDifference = pixelCount * 255
MaxDifferenceNoCount(pixelCount) == MaxPixelValue
MaxDifference(pixelCount) == pixelCount * MaxPixelValue

\* (1 - difference / maxDifference).toFixed(4): the similarity is the
\* fraction (maxDifference - difference) / maxDifference; the result is the
\* numerator over 10^4 of the nearest 4-digit decimal.
SimilarityToFixed4(diff, maxDiff) ==
  LET num == maxDiff - diff
      n == (2 * (10 ^ FixedDigits) * Abs(num) + maxDiff) \div (2 * maxDiff)
  IN IF num < 0 THEN 0 - n ELSE n

SigBadRequest ==
  [status |-> 400, body |-> [error |-> "Two signature images are required"]]

SigDimensionMismatch ==
  [status |-> 400,
   body |-> [error |-> "Images must have the same dimensions after resizing"]]

SigCatchResponse(msg) ==
  [status |-> 500,
   body |-> [error |-> "Failed to compare signatures", details |-> msg]]

\* res.json({ similarity: similarity.toFixed(4) })
SigOutcome(diff, maxDiff) ==
  [status |-> 200, body |-> [similarity |-> SimilarityToFixed4(diff, maxDiff)]]

\* The pixel loop as a sum over the first n pixels.
RECURSIVE SumDiff(_, _, _)
SumDiff(img1, img2, n) ==
  IF n = 0 THEN 0
  ELSE SumDiff(img1, img2, n - 1) + PixelDiff(img1.data[n], img2.data[n])

\* The handler from the dimension check on, for two canonical images.
CompareSignatures(img1, img2) ==
  IF DimsDiffer(img1, img2)
    THEN SigDimensionMismatch
    ELSE SigOutcome(SumDiff(img1, img2, PixelCount(img1)),
                    MaxDifference(PixelCount(img1)))

SigSend(r) ==
  /\ sigResponse' = r
  /\ sigPc' = "done"

\* A POST /compare-signatures arrives with its two uploads.
SigReceive ==
  /\ UNCHANGED <<faceVars, procVars>>
  /\ sigPc = "idle"
  /\ server = "listening"
  /\ \E f1 \in SigUploads, f2 \in SigUploads :
       /\ signature1' = f1
       /\ signature2' = f2
  /\ sigPc' = "validate"
  /\ sigI' = 0
  /\ difference' = 0
  /\ sigResponse' = NoResponse

\* if (!signature1 || !signature2) return res.status(400)...
SigValidate ==
  /\ UNCHANGED <<faceVars, procVars>>
  /\ sigPc = "validate"
  /\ IF signature1.kind = "absent" \/ signature2.kind = "absent"
       THEN SigSend(SigBadRequest)
       ELSE sigPc' = "normalise" /\ UNCHANGED sigResponse
  /\ UNCHANGED <<signature1, signature2, sigI, difference>>

\* const [img1, img2] = await Promise.all([sharp(..)..., sharp(..)...])
SigNormalise ==
  /\ UNCHANGED <<faceVars, procVars>>
  /\ sigPc = "normalise"
  /\ IF signature1.kind = "corrupt" \/ signature2.kind = "corrupt"
       THEN SigSend(SigCatchResponse(MsgSharp))
       ELSE sigPc' = "dims" /\ UNCHANGED sigResponse
  /\ UNCHANGED <<signature1, signature2, sigI, difference>>

\* the dimension check, then let difference = 0 and let i = 0
SigCheckDims ==
  /\ UNCHANGED <<faceVars, procVars>>
  /\ sigPc = "dims"
  /\ IF DimsDiffer(signature1, signature2)
       THEN SigSend(SigDimensionMismatch)
       ELSE sigPc' = "loop" /\ UNCHANGED sigResponse
  /\ sigI' = 0
  /\ difference' = 0
  /\ UNCHANGED <<signature1, signature2>>

\* one turn of for (let i = 0; i < pixelCount; i++)
SigLoopStep ==
  /\ UNCHANGED <<faceVars, procVars>>
  /\ sigPc = "loop"
  /\ sigI < PixelCount(signature1)
  /\ difference' =
       difference + PixelDiff(signature1.data[sigI + 1], signature2.data[sigI + 1])
  /\ sigI' = sigI + 1
  /\ UNCHANGED <<sigPc, signature1, signature2, sigResponse>>

\* the loop is over: maxDifference, similarity and res.json
SigRespond ==
  /\ UNCHANGED <<faceVars, procVars>>
  /\ sigPc = "loop"
  /\ sigI >= PixelCount(signature1)
  /\ SigSend(SigOutcome(difference, MaxDifference(PixelCount(signature1))))
  /\ UNCHANGED <<signature1, signature2, sigI, difference>>

\* The handler has returned.
SigFinish ==
  /\ UNCHANGED <<faceVars, procVars>>
  /\ sigPc = "done"
  /\ sigPc' = "idle"
  /\ signature1' = AbsentFile
  /\ signature2' = AbsentFile
  /\ sigI' = 0
  /\ difference' = 0
  /\ sigResponse' = NoResponse

SigNext ==
  \/ SigReceive
  \/ SigValidate
  \/ SigNormalise
  \/ SigCheckDims
  \/ SigLoopStep
  \/ SigRespond
  \/ SigFinish

SigSpec == Init /\ [][SigNext]_vars

\* ------------------------------------------------- process start-up
\* (src/combined-server.js: the module's top level, lines 30-56, 159-163
\* and 352-355)

\* The routes registered on app.
Routes == {"/compare-signatures", "/upload-cheque", "/compare-faces"}

\* The module starts to run: the loader has been called and waits for its
\* first read, nothing else has happened yet.
StartupInit ==
  /\ FaceInit
  /\ SigInit
  /\ server = "starting"
  /\ geminiKey \in BOOLEAN
  /\ netsLoaded = 0
  /\ backend = "pending"
  /\ served = <<>>

\* if (!geminiApiKey) { ...; process.exit(1); }
ExitNoKey ==
  /\ UNCHANGED <<faceVars, sigVars>>
  /\ server = "starting"
  /\ ~geminiKey
  /\ server' = "exited"
  /\ UNCHANGED <<geminiKey, netsLoaded, backend, served>>

\* app.listen(port, ...): reached by the synchronous top-level code, before
\* any awaited load can continue.
Listen ==
  /\ UNCHANGED <<faceVars, sigVars>>
  /\ server = "starting"
  /\ geminiKey
  /\ server' = "listening"
  /\ UNCHANGED <<geminiKey, netsLoaded, backend, served>>

\* tf.setBackend('cpu').then(...)
BackendReady ==
  /\ UNCHANGED <<faceVars, sigVars>>
  /\ server = "listening"
  /\ backend = "pending"
  /\ backend' = "ready"
  /\ UNCHANGED <<server, geminiKey, netsLoaded, served>>

\* tf.setBackend('cpu')...catch(err => { ...; process.exit(1); })
BackendFailed ==
  /\ UNCHANGED <<faceVars, sigVars>>
  /\ server = "listening"
  /\ backend = "pending"
  /\ server' = "exited"
  /\ UNCHANGED <<geminiKey, netsLoaded, backend, served>>

\* one of the three await faceapi.nets.<net>.loadFromDisk(MODELS_PATH)
LoadNet ==
  /\ UNCHANGED <<faceVars, sigVars>>
  /\ server = "listening"
  /\ netsLoaded < NetCount
  /\ netsLoaded' = netsLoaded + 1
  /\ UNCHANGED <<server, geminiKey, backend, served>>

\* catch (err) { ...; process.exit(1); } of the loader
LoadFailed ==
  /\ UNCHANGED <<faceVars, sigVars>>
  /\ server = "listening"
  /\ netsLoaded < NetCount
  /\ server' = "exited"
  /\ UNCHANGED <<geminiKey, netsLoaded, backend, served>>

\* A request arrives on the listening socket and express runs its handler;
\* the entry keeps how many nets were loaded at that moment.
Dispatch ==
  /\ UNCHANGED <<faceVars, sigVars>>
  /\ server = "listening"
  /\ Len(served) < MaxServed
  /\ \E r \in Routes :
       served' = Append(served, [route |-> r, nets |-> netsLoaded])
  /\ UNCHANGED <<server, geminiKey, netsLoaded, backend>>

StartupNext ==
  \/ ExitNoKey
  \/ Listen
  \/ BackendReady
  \/ BackendFailed
  \/ LoadNet
  \/ LoadFailed
  \/ Dispatch

StartupSpec == StartupInit /\ [][StartupNext]_vars

\* ------------------------------------------------------ verified properties
\* The handler has answered a request that passed the input check.
Answered == pc = "done" /\ ~MissingInput

\* The answer is a Verification Outcome.
ReturnedOutcome == pc = "done" /\ response.status = 200

\* fetchAccountData returned the approved array.
FetchSucceeded ==
  store.status = "ok" /\ ~ApprovedInvalid(store) /\ ~ItemInvalid(store)

CandKind(i) == accountData[i].photo.kind
CandDist(i) == accountData[i].photo.dist

MaxOf(S) == CHOOSE m \in S : \A x \in S : x <= m

\* C1: in every returned Verification Outcome the top-level isMatch is true
\* if and only if some entry of the returned faces sequence has isMatch true.
C1_OverallMatchIffAnyEntryMatches ==
  ReturnedOutcome =>
    (response.body.isMatch <=>
       \E i \in 1..Len(response.body.faces) : response.body.faces[i].isMatch)

\* An outcome whose first candidate matched and whose last one did not.
C1_Witness ==
  /\ ReturnedOutcome
  /\ Len(response.body.faces) >= 2
  /\ response.body.faces[1].isMatch
  /\ ~response.body.faces[Len(response.body.faces)].isMatch
  /\ response.body.isMatch

\* C2: in every returned Verification Outcome bestSimilarity is the maximum
\* of the similarity values of the returned Match Results (also when every
\* compared candidate is farther than 1), and it is 0 when every candidate
\* failed detection.
C2_BestSimilarityIsMax ==
  ReturnedOutcome =>
    /\ response.body.bestSimilarity =
         MaxOf({response.body.faces[i].similarity :
                  i \in 1..Len(response.body.faces)})
    /\ (\A i \in 1..Len(accountData) : CandKind(i) = "noface")
         => response.body.bestSimilarity = 0

\* The live image is unusable: undecodable, or without a face.
LiveFails == livePhoto \in {"corrupt", "noface"}

\* A fetched candidate whose photo decodes: not every candidate is lost.
SomeCandidateUsable ==
  \E i \in 1..Len(accountData) : CandKind(i) \in {"face", "noface"}

\* C3: once the candidates are fetched and the live image is usable, the
\* loop never ends the request in a request-level failure: a candidate that
\* cannot be decoded or shows no face gets its Match Result like the others,
\* so the outcome lists every candidate.
C3_CandidateFailureIsNotFatal ==
  (Answered /\ FetchSucceeded /\ ~LiveFails /\ SomeCandidateUsable) =>
    /\ response.status = 200
    /\ Len(response.body.faces) = Len(accountData)

\* C4: every candidate whose detection failed appears in the returned
\* sequence with isMatch false, similarity 0 and a recorded failure reason.
C4_FailedCandidateEntryHasReason ==
  ReturnedOutcome =>
    \A i \in 1..Len(accountData) :
      CandKind(i) = "noface" =>
        /\ i <= Len(response.body.faces)
        /\ response.body.faces[i].isMatch = FALSE
        /\ response.body.faces[i].similarity = 0
        /\ DOMAIN response.body.faces[i]
             \ {"faceUrl", "isMatch", "similarity"} # {}

\* What an entry says about the comparison: all of it but the source id.
Verdict(e) == [f \in DOMAIN e \ {"faceUrl"} |-> e[f]]

\* C5: no Match Result of a candidate whose detection failed says the same
\* as a Match Result of a candidate that was compared and did not match.
C5_FailedDistinctFromNonMatch ==
  \A i, j \in 1..Len(faceResults) :
    (CandKind(i) = "noface" /\ CandKind(j) = "face" /\ ~faceResults[j].isMatch)
      => Verdict(faceResults[i]) # Verdict(faceResults[j])

\* The fetched candidate set is one undetectable and one matching photo.
OneUndetectableOneMatching ==
  /\ Len(accountData) = 2
  /\ \E i, j \in 1..2 :
       /\ i # j
       /\ CandKind(i) = "noface"
       /\ CandKind(j) = "face" /\ CandDist(j) < Threshold

\* C6: with a live face, a candidate set of one undetectable photo and one
\* photo closer than the threshold yields a Verification Outcome with
\* isMatch true, in either order, the undetectable one being a non-match.
C6_UndetectablePlusMatchingStillMatches ==
  (Answered /\ livePhoto = "face" /\ OneUndetectableOneMatching) =>
    /\ response.status = 200
    /\ response.body.isMatch
    /\ Len(response.body.faces) = 2
    /\ \A i \in 1..2 :
         CandKind(i) = "noface" => ~response.body.faces[i].isMatch

\* The undetectable photo comes second and the request has been answered.
C6_Witness ==
  /\ Answered /\ livePhoto = "face" /\ OneUndetectableOneMatching
  /\ CandKind(2) = "noface"
  /\ response.status = 200

\* The kind a response reports: its status and its error field.
Kind(r) == <<r.status, r.body.error>>

\* C7: an empty candidate set ends the request with a failure whose kind
\* differs from that of a detection failure and from that of an unreachable
\* store, and no Match Results are returned.
C7_EmptyCandidateSetHasItsOwnKind ==
  (Answered /\ store.status = "ok" /\ Len(store.approved) = 0) =>
    /\ response.status # 200
    /\ "faces" \notin DOMAIN response.body
    /\ Kind(response) # Kind(NoLiveFace)
    /\ \A m \in NetMessages : Kind(response) # Kind(CatchResponse(m))

\* No stored photo has been normalized, examined or compared.
NoCandidateTouched == faceResults = <<>> /\ \A c \in calls : c[2] = 0

\* C8 as stated: a live image without a face ends the request with
\* NoLiveFace, no candidate having been processed.
C8_Original ==
  (Answered /\ livePhoto = "noface") =>
    response = NoLiveFace /\ NoCandidateTouched

\* C8 amended: a live image without a face never lets a candidate be
\* processed, and the request ends with NoLiveFace provided the account
\* fetch, which comes first, succeeded.
C8_NoLiveFaceStopsBeforeCandidates ==
  (~MissingInput /\ livePhoto = "noface") =>
    /\ NoCandidateTouched
    /\ (pc = "done" /\ FetchSucceeded) => response = NoLiveFace

C8_Witness ==
  /\ Answered /\ livePhoto = "noface" /\ FetchSucceeded
  /\ Len(accountData) >= 2
  /\ response = NoLiveFace

\* One of the fatal failures has happened to the answered request.
FatalFailure ==
  \/ ~FetchSucceeded
  \/ LiveFails
  \/ \E k \in 1..Len(accountData) : CandKind(k) \in {"nocomma", "corrupt"}

\* C9: on a fatal failure the response is an error (status and error text)
\* and has no isMatch, bestSimilarity or faces field.
C9_NoPartialOutcomeOnFailure ==
  (Answered /\ FatalFailure) =>
    /\ response.status \in {400, 500}
    /\ "error" \in DOMAIN response.body
    /\ DOMAIN response.body \cap {"isMatch", "bestSimilarity", "faces"} = {}

\* Candidate k raised after earlier candidates had produced results.
C9_Witness ==
  /\ Answered
  /\ Len(faceResults) >= 1
  /\ Len(faceResults) < Len(accountData)
  /\ CandKind(Len(faceResults) + 1) = "corrupt"
  /\ response.status = 500

\* C10 as stated: similarity is exactly 1 - distance.
C10_Original ==
  \A i \in 1..Len(faceResults) :
    CandKind(i) = "face" =>
      /\ faceResults[i].isMatch <=> CandDist(i) < Threshold
      /\ faceResults[i].similarity = One - CandDist(i)

\* C10 amended: isMatch is true exactly when distance < 0.5, and similarity
\* is 1 - distance rounded to the nearest multiple of 0.0001, unclamped, so
\* a distance above 1 by a step or more gives a negative similarity.
C10_StrictThresholdRoundedSimilarity ==
  \A i \in 1..Len(faceResults) :
    CandKind(i) = "face" =>
      /\ faceResults[i].isMatch <=> CandDist(i) < Threshold
      /\ faceResults[i].similarity % Step = 0
      /\ 2 * Abs(faceResults[i].similarity - (One - CandDist(i))) <= Step
      /\ CandDist(i) >= One + Step => faceResults[i].similarity < 0

\* A distance of exactly 0.5 and a distance above 1 in one request.
C10_Witness ==
  /\ ReturnedOutcome
  /\ \E i, j \in 1..Len(faceResults) :
       /\ CandKind(i) = "face" /\ CandDist(i) = Threshold
       /\ ~faceResults[i].isMatch
       /\ CandKind(j) = "face" /\ CandDist(j) > One
       /\ faceResults[j].similarity < 0

\* C11: a candidate with the live descriptor itself is at distance 0, so a
\* request whose fetched candidates include one always returns a
\* Verification Outcome with isMatch true and bestSimilarity 1.
C11_SameDescriptorAlwaysMatches ==
  (Answered /\ livePhoto = "face"
     /\ \E i \in 1..Len(accountData) : CandKind(i) = "face" /\ CandDist(i) = 0)
    =>
    /\ response.status = 200
    /\ response.body.isMatch
    /\ response.body.bestSimilarity = One

\* Every candidate has been attempted by the loop.
AllAttempted == \A i \in 1..Len(accountData) : idx >= i

\* C16: once the live image has a face, the request is answered only after
\* every fetched candidate has been attempted, and every result computed on
\* the way is in the response.
C16_OutcomeAfterAllCandidatesSettled ==
  (Answered /\ FetchSucceeded /\ livePhoto = "face" /\ SomeCandidateUsable) =>
    /\ AllAttempted
    /\ "faces" \in DOMAIN response.body
    /\ response.body.faces = faceResults

\* C18: every request that asked the store eventually gets a response.
C18_EveryRequestAnswered == (pc = "fetch") ~> (pc = "done")

Perms(n) ==
  {p \in [1..n -> 1..n] : \A i, j \in 1..n : p[i] = p[j] => i = j}

Permute(s, p) == [i \in 1..Len(s) |-> s[p[i]]]

\* C19: for every permutation of the fetched candidates the loop computes
\* the same isMatch and the same reported bestSimilarity as the returned
\* outcome, and the same entries, each at the place of its candidate.
C19_AggregateIsOrderIndependent ==
  ReturnedOutcome =>
    \A p \in Perms(Len(accountData)) :
      LET o == Aggregate(Permute(accountData, p)) IN
        /\ o.isMatch = response.body.isMatch
        /\ ParseFloat(ToFixed4(o.bestSimilarity)) = response.body.bestSimilarity
        /\ Len(o.faces) = Len(response.body.faces)
        /\ \A i \in 1..Len(o.faces) : o.faces[i] = response.body.faces[p[i]]

\* An outcome over two candidates at different distances, the nearer first.
C19_Witness ==
  /\ ReturnedOutcome
  /\ Len(accountData) >= 2
  /\ CandKind(1) = "face" /\ CandKind(2) = "face"
  /\ CandDist(1) < CandDist(2)
  /\ response.body.bestSimilarity > 0

\* The similarity a candidate needs to exceed to be a match: 1 - 0.5.
AcceptLevel == One - Threshold

\* C20 as stated: isMatch is true exactly when the returned (rounded)
\* bestSimilarity is strictly greater than 0.5.
C20_Original ==
  ReturnedOutcome =>
    (response.body.isMatch <=> response.body.bestSimilarity > AcceptLevel)

\* C20 amended: isMatch is true exactly when the unrounded bestSimilarity is
\* strictly greater than 0.5; of the returned value it only holds that
\* above 0.5 implies isMatch and isMatch implies at least 0.5.
C20_AcceptPoliciesCoincideUnrounded ==
  ReturnedOutcome =>
    /\ response.body.isMatch <=> bestSimilarity > AcceptLevel
    /\ response.body.bestSimilarity > AcceptLevel => response.body.isMatch
    /\ response.body.isMatch => response.body.bestSimilarity >= AcceptLevel

\* A match whose best similarity is reported as exactly 0.5.
C20_Witness ==
  /\ ReturnedOutcome
  /\ response.body.isMatch
  /\ response.body.bestSimilarity = AcceptLevel
  /\ bestSimilarity > AcceptLevel

\* The signature handler answered with a similarity.
SigReturned == sigPc = "done" /\ sigResponse.status = 200

\* The two uploads were decoded into canonical images.
BothCanonical == signature1.kind = "image" /\ signature2.kind = "image"

SigMax == PixelCount(signature1) * MaxPixelValue

\* C12: for two canonical images of equal dimensions the similarity
\* 1 - difference / (pixelCount * 255) lies in [0,1], and the reported value
\* is the 4-digit decimal nearest to it (so it lies in [0,1] too).
C12_SimilarityInUnitIntervalRounded ==
  SigReturned =>
    /\ 0 <= SigMax - difference /\ SigMax - difference <= SigMax
    /\ sigResponse.body.similarity \in 0..(10 ^ FixedDigits)
    /\ 2 * Abs(sigResponse.body.similarity * SigMax
                 - (10 ^ FixedDigits) * (SigMax - difference)) <= SigMax

\* Two images of more than one pixel whose similarity is not on the grid.
C12_Witness ==
  /\ SigReturned
  /\ PixelCount(signature1) >= 2
  /\ ((10 ^ FixedDigits) * (SigMax - difference)) % SigMax # 0
  /\ sigResponse.body.similarity > 0

AllPixels(img, v) == \A k \in DOMAIN img.data : img.data[k] = v

C14_ComparisonIsSymmetric ==
  (sigPc = "done" /\ BothCanonical) =>
    sigResponse = CompareSignatures(signature2, signature1)

\* Two different images of equal dimensions have been compared.
C14_Witness ==
  /\ SigReturned
  /\ signature1.data # signature2.data
  /\ sigResponse.body.similarity < 10 ^ FixedDigits

\* C15: when the two canonical images differ in width or height the pixel
\* loop is never entered and the answer is the dimension error, without a
\* similarity.
C15_DimensionMismatchIsAnError ==
  (BothCanonical /\ (signature1.width # signature2.width
                       \/ signature1.height # signature2.height)) =>
    /\ sigPc # "loop"
    /\ sigI = 0 /\ difference = 0
    /\ sigPc = "done" =>
         /\ sigResponse = SigDimensionMismatch
         /\ "similarity" \notin DOMAIN sigResponse.body

\* Same width, different height, answered.
C15_Witness ==
  /\ sigPc = "done" /\ BothCanonical
  /\ signature1.width = signature2.width
  /\ signature1.height # signature2.height
  /\ sigResponse.status = 400

\* C17: the process listens only once the nets are loaded, no request is
\* dispatched before that, and a process whose loading failed has handled
\* no request at all.
C17_NoTrafficBeforeModelsLoaded ==
  /\ server = "listening" => netsLoaded = NetCount
  /\ \A i \in 1..Len(served) : served[i].nets = NetCount
  /\ (server = "exited" /\ netsLoaded < NetCount) => served = <<>>

\* The store's reply does not pass fetchAccountData: the account is unknown
\* (the store refuses the request), it has no approved entry, or one of its
\* approved entries lacks its photo or its signature.
StoreRejected ==
  \/ store.status \in {"error", "noapproved"}
  \/ store.status = "ok" /\ Len(store.approved) = 0
  \/ /\ store.status = "ok"
     /\ \E i \in 1..Len(store.approved) :
          store.approved[i].photo.kind = "missing"
            \/ ~store.approved[i].signature

\* The live image has been handed to sharp or to the detector.
LiveTouched == <<"sharp", 0>> \in calls \/ <<"detect", 0>> \in calls

\* C21: the store is queried and its reply validated before the live image
\* is normalised or examined: the live image is touched only after a fetch
\* whose reply passed validation, and a request whose live photo shows no
\* face while the store's reply is rejected ends with the generic 500
\* 'Failed to compare faces', the live image untouched, never with the 400
\* 'No face detected in the live photo'.
C21_StoreIsCheckedBeforeLiveImage ==
  /\ LiveTouched => (<<"fetch", 0>> \in calls /\ ~StoreRejected)
  /\ (Answered /\ livePhoto = "noface" /\ StoreRejected) =>
       /\ response.status = 500
       /\ response.body.error = "Failed to compare faces"
       /\ response # NoLiveFace
       /\ ~LiveTouched

\* A faceless live photo sent for an account whose only approved entry has
\* a photo but no signature, answered after the fetch.
C21_Witness ==
  /\ Answered /\ livePhoto = "noface"
  /\ store.status = "ok" /\ Len(store.approved) = 1
  /\ store.approved[1].photo.kind # "missing"
  /\ ~store.approved[1].signature
  /\ <<"fetch", 0>> \in calls
  /\ response.status = 500

\* Responses written for the request in hand; every res.json of the handler
\* is followed by a return or by the end of the handler.
ResponsesSent == IF response = NoResponse THEN 0 ELSE 1

\* C22: a handler whose execution is over has sent exactly one response: no
\* path ends without one, none sends a second.
C22_ExactlyOneResponsePerRequest == HandlerEnded => ResponsesSent = 1

====
